---- MODULE Spec2Model ----
(***************************************************************************)
(* A model of src/index.tsx: the image generation page.  The state is the  *)
(* module-level variables of the script, the DOM properties it reads and   *)
(* writes, the localStorage entry that holds the history, and the          *)
(* activations of the async function generate() that are suspended at an   *)
(* await.  Every event listener is one action; the continuation of         *)
(* generate() after each await is one action.                              *)
(*                                                                         *)
(* Strings the script computes with (trim, includes, replace, split,       *)
(* concatenation) are sequences of tokens.  The token alphabet is chosen   *)
(* so that a text has one tokenisation only: no token is a concatenation   *)
(* of other tokens, so equality and containment of token sequences are     *)
(* equality and containment of the texts.                                  *)
(***************************************************************************)
EXTENDS Integers, Sequences, FiniteSets, TLC

VARIABLES
  storage,          \* localStorage entry under HISTORY_KEY
  prompt,           \* let prompt
  negativePrompt,   \* let negativePrompt
  aspectRatio,      \* let aspectRatio
  qualityPreset,    \* let qualityPreset
  cameraView,       \* let cameraView
  promptElValue,    \* promptEl.value
  disabled,         \* .disabled of the six controls of setControlsDisabled
  downloadDisabled, \* downloadButton.disabled
  outputImage,      \* outputImage.src and outputImage.style.display
  statusEl,         \* content of #status
  historyHidden,    \* historyContainer has class 'hidden'
  historyGrid,      \* the items rendered in #history-grid (each with its listeners)
  flows,            \* activations of generate() suspended at an await
  env,              \* process.env.API_KEY configured, window.aistudio.openSelectKey present
  nextId,           \* source of self.crypto.randomUUID() and Date.now()
  requests,         \* number of user events handled so far that called generate()
  edits,            \* number of input/change events handled so far
  appended,         \* number of items added to the history since it was last empty
  ev                \* what the last step did (observation only, never read by the program)

vars == <<storage, prompt, negativePrompt, aspectRatio, qualityPreset, cameraView,
          promptElValue, disabled, downloadDisabled, outputImage, statusEl,
          historyHidden, historyGrid, flows, env, nextId, requests, edits, appended, ev>>

ui == <<prompt, negativePrompt, aspectRatio, qualityPreset, cameraView, promptElValue>>

-----------------------------------------------------------------------------
(* Bounds of the model *)

\* generate() is called at most this many times in a run
MaxRequests == 2
\* at most this many input/change events in a run
MaxEdits == 2
\* at most this many activations of generate() are suspended at once
MaxFlows == 2
\* appends performed in a run of the history store alone
MaxAppends == 32

(* Program constants *)
MAX_HISTORY_ITEMS == 30

-----------------------------------------------------------------------------
(* Texts *)

Whitespace == {" ", "\n"}

RECURSIVE TrimStart(_)
TrimStart(s) ==
  IF s # <<>> /\ Head(s) \in Whitespace THEN TrimStart(Tail(s)) ELSE s

RECURSIVE TrimEnd(_)
TrimEnd(s) ==
  IF s # <<>> /\ s[Len(s)] \in Whitespace THEN TrimEnd(SubSeq(s, 1, Len(s) - 1)) ELSE s

\* a trim that removes nothing
Trim_Nothing(s) == s

\* String.prototype.trim
Trim(s) == TrimEnd(TrimStart(s))

\* String.prototype.includes
Includes(s, p) ==
  \E i \in 0..(Len(s) - Len(p)) : SubSeq(s, i + 1, i + Len(p)) = p

\* the tokens toLowerCase changes, among the tokens of the model
LowerToken(t) ==
  CASE t = "Permission Denied" -> "permission denied"
    [] t = "PERMISSION DENIED" -> "permission denied"
    [] t = "API_KEY_INVALID" -> "api_key_invalid"
    [] t = "API key not valid" -> "api key not valid"
    [] t = "Requested entity was not found." -> "requested entity was not found."
    [] t = "Quota exceeded" -> "quota exceeded"
    [] OTHER -> t

\* String.prototype.toLowerCase
ToLowerCase(s) == [i \in 1..Len(s) |-> LowerToken(s[i])]

\* cameraView.replace(/-/g, ' ')
ReplaceHyphens(s) == [i \in 1..Len(s) |-> IF s[i] = "-" THEN " " ELSE s[i]]

\* `data:image/jpeg;base64,${base64ImageBytes}`
DataUrl(bytes) == <<"data:image/jpeg;base64,", bytes>>

-----------------------------------------------------------------------------
(* The localStorage entry and the values JSON.parse can give *)

JsNull == [type |-> "null", items |-> <<>>]
JsObject == [type |-> "object", items |-> <<>>]
JsArray(h) == [type |-> "array", items |-> h]

\* no entry under HISTORY_KEY: getItem gives null
Absent == [tag |-> "absent", text |-> "", value |-> JsNull]
\* an entry whose text is not JSON ("" included)
Raw(t) == [tag |-> "raw", text |-> t, value |-> JsNull]
\* an entry whose text is the JSON of v
Json(v) == [tag |-> "json", text |-> "", value |-> v]

\* JSON.stringify(history)
JsonStringify(h) == Json(JsArray(h))

\* JSON.parse(text): a SyntaxError on anything that is not JSON
JsonParse(st) ==
  IF st.tag = "json" THEN [threw |-> FALSE, value |-> st.value]
  ELSE [threw |-> TRUE, value |-> JsNull]

\* !historyJson: getItem gave null or the empty string
Falsy(st) == st.tag = "absent" \/ (st.tag = "raw" /\ st.text = "")

\* getHistory(): the value it returns, which the code takes for HistoryItem[]
GetHistory(st) ==
  IF Falsy(st) THEN JsArray(<<>>)
  ELSE IF JsonParse(st).threw THEN JsArray(<<>>)
  ELSE JsonParse(st).value

\* a slice that keeps one item too many
Slice_KeepsOneMore(h, n) == SubSeq(h, 1, IF Len(h) < n + 1 THEN Len(h) ELSE n + 1)

\* history.slice(0, MAX_HISTORY_ITEMS)
Slice(h, n) == SubSeq(h, 1, IF Len(h) < n THEN Len(h) ELSE n)

\* saveHistory(history): setItem stores the text, or throws when the quota is exceeded
SaveHistory(st, h, quotaOk) ==
  IF quotaOk THEN [threw |-> FALSE, error |-> <<>>, storage |-> JsonStringify(h)]
  ELSE [threw |-> TRUE, error |-> <<"Quota exceeded">>, storage |-> st]

\* an addToHistory that pushes the item at the tail before it truncates
AddToHistory_Push(st, item, quotaOk) ==
  LET history == GetHistory(st) IN
  IF history.type # "array"
    THEN [threw |-> TRUE, storage |-> st, error |-> <<"history.push is not a function">>]
  ELSE SaveHistory(st, Slice(history.items \o <<item>>, MAX_HISTORY_ITEMS), quotaOk)

\* an addToHistory that never truncates
AddToHistory_NoTruncate(st, item, quotaOk) ==
  LET history == GetHistory(st) IN
  IF history.type # "array"
    THEN [threw |-> TRUE, storage |-> st, error |-> <<"history.unshift is not a function">>]
  ELSE SaveHistory(st, <<item>> \o history.items, quotaOk)

\* addToHistory(item)
AddToHistory(st, item, quotaOk) ==
  LET history == GetHistory(st) IN
  IF history.type = "null"
    THEN [threw |-> TRUE, storage |-> st,
          error |-> <<"Cannot read properties of null (reading 'unshift')">>]
  ELSE IF history.type # "array"
    THEN [threw |-> TRUE, storage |-> st,
          error |-> <<"history.unshift is not a function">>]
  ELSE LET unshifted == <<item>> \o history.items
           kept == IF Len(unshifted) > MAX_HISTORY_ITEMS
                     THEN Slice(unshifted, MAX_HISTORY_ITEMS)
                     ELSE unshifted
       IN SaveHistory(st, kept, quotaOk)

\* a removeItem under another key: the entry stays
RemoveItem_OtherKey(st) == st

\* localStorage.removeItem(HISTORY_KEY)
RemoveItem(st) == Absent

\* renderHistory(): what it leaves in historyContainer and historyGrid
RenderHistory(st, hidden, grid) ==
  LET history == GetHistory(st) IN
  IF history.type = "null"
    THEN [threw |-> TRUE, hidden |-> hidden, grid |-> grid]
  ELSE IF history.type # "array"
    THEN [threw |-> TRUE, hidden |-> FALSE, grid |-> <<>>]
  ELSE IF Len(history.items) = 0
    THEN [threw |-> FALSE, hidden |-> TRUE, grid |-> grid]
  ELSE [threw |-> FALSE, hidden |-> FALSE, grid |-> history.items]

-----------------------------------------------------------------------------
(* The composed prompt *)

RECURSIVE Join(_, _)
\* Array.prototype.join
Join(parts, sep) ==
  IF parts = <<>> THEN <<>>
  ELSE IF Len(parts) = 1 THEN <<parts[1]>>
  ELSE <<parts[1]>> \o sep \o Join(Tail(parts), sep)

Comma == <<", ">>

CommonKeywords ==
  Join(<<"photorealistic", "film still", "movie scene", "fit prompt",
         "no distortion", "no deformations", "no text overlays">>, Comma)

\* switch (qualityPreset)
QualityKeywords(q) ==
  CASE q = "sd" ->
         Join(<<"720p resolution", "standard quality", "sharp focus", "basic detail">>, Comma)
    [] q = "hd" ->
         Join(<<"1080p", "Full HD resolution", "high quality", "high detail",
                "realistic look">>, Comma)
    [] q = "ultra" ->
         Join(<<"4K+", "ultra realistic", "shot on ARRI ALEXA LF", "Anamorphic Lenses",
                "High Contrast", "Gritty Film Grain", "Shallow Depth of Field",
                "extreme atmospheric realism", "deep blacks (Chiaroscuro)">>, Comma)
    [] OTHER -> <<>>

DefaultView == <<"default">>

CameraViewPrompt(cv) ==
  IF cv # DefaultView
    THEN <<", ", "Shot from a ">> \o ReplaceHyphens(cv) \o <<" perspective">>
    ELSE <<>>

\* a finalPrompt that appends the negative prompt as it was typed
ComposePrompt_NegativeUntrimmed(p, cv, q, neg) ==
  LET base == p \o CameraViewPrompt(cv) \o Comma \o QualityKeywords(q) \o Comma
                \o CommonKeywords
  IN IF Trim(neg) # <<>> THEN base \o <<". Negative prompt: ">> \o neg ELSE base

\* finalPrompt of generate()
ComposePrompt(p, cv, q, neg) ==
  LET base == p \o CameraViewPrompt(cv) \o Comma \o QualityKeywords(q) \o Comma
                \o CommonKeywords
  IN IF Trim(neg) # <<>> THEN base \o <<". Negative prompt: ">> \o Trim(neg) ELSE base

\* the request generateImage() sends: aspectRatio is in config only when it is not empty
Request(finalPrompt, ar) ==
  [model |-> "imagen-4.0-generate-001", prompt |-> finalPrompt,
   hasAspectRatio |-> ar # "", aspectRatio |-> ar]

-----------------------------------------------------------------------------
(* Status texts and the classification of errors *)

MsgEnterPrompt == <<"Please enter a prompt to generate an image.">>
MsgNoKey == <<"API key is not configured. Please add your API key.">>
MsgNoDialog ==
  <<"API key selection is not available. Please configure the API_KEY environment variable.">>
MsgGenerating == <<"Generating image...">>
MsgSuccess == <<"Image generated successfully.">>
MsgNoImages == <<"No images were generated. The prompt may have been blocked.">>
MsgUnknown == <<"An unknown error occurred.">>
MsgModelNotFound ==
  <<"Model not found. This can be caused by an invalid API key or permission issues. Please check your API key.">>
MsgInvalidKey == <<"Your API key is invalid. Please add a valid API key.">>

SigNotFound == <<"Requested entity was not found.">>
SigKeyInvalid == <<"API_KEY_INVALID">>
SigKeyNotValid == <<"API key not valid">>
SigPermission == <<"permission denied">>

\* showStatusError(message)
ShowStatusError(m) == [red |-> TRUE, text |-> m]
\* statusEl.innerText = message
StatusText(m) == [red |-> FALSE, text |-> m]

\* e instanceof Error ? e.message : 'An unknown error occurred.'
ErrorMessage(e) == IF e.isError THEN e.message ELSE MsgUnknown

\* a catch block that tests the invalid-key signatures before the not-found one
Classify_KeyFirst(errorMessage) ==
  IF \/ Includes(errorMessage, SigKeyInvalid)
     \/ Includes(errorMessage, SigKeyNotValid)
     \/ Includes(ToLowerCase(errorMessage), SigPermission)
    THEN [message |-> MsgInvalidKey, openDialog |-> TRUE]
  ELSE IF Includes(errorMessage, SigNotFound)
    THEN [message |-> MsgModelNotFound, openDialog |-> TRUE]
  ELSE [message |-> <<"Error: ">> \o errorMessage, openDialog |-> FALSE]

\* a catch block that reports a model that was not found without asking for a key
Classify_NotFoundSilent(errorMessage) ==
  IF Includes(errorMessage, SigNotFound)
    THEN [message |-> MsgModelNotFound, openDialog |-> FALSE]
  ELSE IF \/ Includes(errorMessage, SigKeyInvalid)
          \/ Includes(errorMessage, SigKeyNotValid)
          \/ Includes(ToLowerCase(errorMessage), SigPermission)
    THEN [message |-> MsgInvalidKey, openDialog |-> TRUE]
  ELSE [message |-> <<"Error: ">> \o errorMessage, openDialog |-> FALSE]

\* the catch block's userFriendlyMessage and shouldOpenDialog
Classify(errorMessage) ==
  IF Includes(errorMessage, SigNotFound)
    THEN [message |-> MsgModelNotFound, openDialog |-> TRUE]
  ELSE IF \/ Includes(errorMessage, SigKeyInvalid)
          \/ Includes(errorMessage, SigKeyNotValid)
          \/ Includes(ToLowerCase(errorMessage), SigPermission)
    THEN [message |-> MsgInvalidKey, openDialog |-> TRUE]
  ELSE [message |-> <<"Error: ">> \o errorMessage, openDialog |-> FALSE]

Controls == {"generateButton", "promptEl", "negativePromptEl", "aspectRatioSelect",
             "qualityPresetSelect", "cameraViewSelect"}

\* a setControlsDisabled that leaves the generate button alone
SetControlsDisabled_NotTheButton(b) ==
  [c \in Controls |-> IF c = "generateButton" THEN FALSE ELSE b]

\* setControlsDisabled(disabled)
SetControlsDisabled(b) == [c \in Controls |-> b]

-----------------------------------------------------------------------------
(* Inputs: what the user can enter and what the collaborators can answer *)

PromptInputs == {<<" ">>, <<" ", "cat">>}
NegativeInputs == {<<>>, <<" ", "blurry", " ">>}
AspectRatios == {"16:9", ""}
QualityPresets == {"sd", "ultra", "draft"}
CameraViews == {DefaultView, <<"low", "-", "angle">>}
ImageBytes == {"AAAA", "BBBB"}

\* the messages of the errors ai.models.generateImages can reject with
ErrorMessages ==
  {<<"Requested entity was not found.">>,
   <<"API_KEY_INVALID">>,
   <<"[400] ", "API key not valid", ". Please pass a valid API key.">>,
   <<"Permission Denied">>,
   <<"Requested entity was not found.", " ", "API_KEY_INVALID">>,
   <<"Failed to fetch">>}

\* what a rejected promise carries: an Error with a message, or some other value
Thrown == {[isError |-> TRUE, message |-> m] : m \in ErrorMessages}
            \cup {[isError |-> FALSE, message |-> <<>>]}

NoThrow == [isError |-> FALSE, message |-> <<>>]

\* how the call of ai.models.generateImages ends
ApiOutcomes ==
  {[kind |-> "images", bytes |-> b, thrown |-> NoThrow] : b \in ImageBytes}
    \cup {[kind |-> k, bytes |-> "", thrown |-> NoThrow] : k \in {"undefined", "empty"}}
    \cup {[kind |-> "rejected", bytes |-> "", thrown |-> t] : t \in Thrown}

\* what the entry under HISTORY_KEY can hold when the page loads
InitialStores ==
  {Absent, Raw("{not json"), Json(JsNull), Json(JsObject)}

-----------------------------------------------------------------------------
(* Observation of a step *)

Ev(op, path, error, reported, dialogs, calls, escaped) ==
  [op |-> op, path |-> path, error |-> error, reported |-> reported,
   dialogs |-> dialogs, calls |-> calls, escaped |-> escaped, api |-> "", image |-> <<>>]

\* the observation of a step that ends a call of the API: how the call ended
EvSettle(e, outcome) ==
  [e EXCEPT !.api = outcome.kind,
            !.image = IF outcome.kind = "images" THEN DataUrl(outcome.bytes) ELSE <<>>]

-----------------------------------------------------------------------------
(* Page load *)

\* the top level of the script: renderHistory(); downloadButton.disabled = true;
\* an exception of renderHistory() ends the script before the second statement,
\* and the markup (not part of the sources) decides what was there before
Init ==
  /\ storage \in InitialStores
  /\ prompt = <<>>
  /\ negativePrompt = <<>>
  /\ aspectRatio = "16:9"
  /\ qualityPreset = "ultra"
  /\ cameraView = DefaultView
  /\ promptElValue = <<>>
  /\ disabled = SetControlsDisabled(FALSE)
  /\ outputImage \in {[src |-> <<>>, display |-> d] : d \in {"", "none"}}
  /\ statusEl = StatusText(<<>>)
  /\ \E markupHidden \in BOOLEAN, markupDisabled \in BOOLEAN :
       LET r == RenderHistory(storage, markupHidden, <<>>) IN
       /\ historyHidden = r.hidden
       /\ historyGrid = r.grid
       /\ downloadDisabled = IF r.threw THEN markupDisabled ELSE TRUE
  /\ flows = <<>>
  /\ env \in {[apiKey |-> k, aistudio |-> a] : k \in {"", "KEY"}, a \in BOOLEAN}
  /\ nextId = 1
  /\ requests = 0
  /\ edits = 0
  /\ appended = 0
  /\ ev = Ev("load", "", <<>>, <<>>, 0, 0, FALSE)

-----------------------------------------------------------------------------
(* Input and change listeners.  A disabled control receives no event. *)

InputPrompt ==
  /\ edits < MaxEdits
  /\ ~disabled["promptEl"]
  /\ \E v \in PromptInputs :
       /\ v # promptElValue
       /\ promptElValue' = v
       /\ prompt' = v
  /\ edits' = edits + 1
  /\ ev' = Ev("input", "prompt", <<>>, <<>>, 0, 0, FALSE)
  /\ UNCHANGED <<storage, negativePrompt, aspectRatio, qualityPreset, cameraView,
                 disabled, downloadDisabled, outputImage, statusEl, historyHidden,
                 historyGrid, flows, env, nextId, requests, appended>>

InputNegativePrompt ==
  /\ edits < MaxEdits
  /\ ~disabled["negativePromptEl"]
  /\ \E v \in NegativeInputs :
       /\ v # negativePrompt
       /\ negativePrompt' = v
  /\ edits' = edits + 1
  /\ ev' = Ev("input", "negativePrompt", <<>>, <<>>, 0, 0, FALSE)
  /\ UNCHANGED <<storage, prompt, aspectRatio, qualityPreset, cameraView, promptElValue,
                 disabled, downloadDisabled, outputImage, statusEl, historyHidden,
                 historyGrid, flows, env, nextId, requests, appended>>

ChangeAspectRatio ==
  /\ edits < MaxEdits
  /\ ~disabled["aspectRatioSelect"]
  /\ \E v \in AspectRatios :
       /\ v # aspectRatio
       /\ aspectRatio' = v
  /\ edits' = edits + 1
  /\ ev' = Ev("change", "aspectRatio", <<>>, <<>>, 0, 0, FALSE)
  /\ UNCHANGED <<storage, prompt, negativePrompt, qualityPreset, cameraView, promptElValue,
                 disabled, downloadDisabled, outputImage, statusEl, historyHidden,
                 historyGrid, flows, env, nextId, requests, appended>>

ChangeQualityPreset ==
  /\ edits < MaxEdits
  /\ ~disabled["qualityPresetSelect"]
  /\ \E v \in QualityPresets :
       /\ v # qualityPreset
       /\ qualityPreset' = v
  /\ edits' = edits + 1
  /\ ev' = Ev("change", "qualityPreset", <<>>, <<>>, 0, 0, FALSE)
  /\ UNCHANGED <<storage, prompt, negativePrompt, aspectRatio, cameraView, promptElValue,
                 disabled, downloadDisabled, outputImage, statusEl, historyHidden,
                 historyGrid, flows, env, nextId, requests, appended>>

ChangeCameraView ==
  /\ edits < MaxEdits
  /\ ~disabled["cameraViewSelect"]
  /\ \E v \in CameraViews :
       /\ v # cameraView
       /\ cameraView' = v
  /\ edits' = edits + 1
  /\ ev' = Ev("change", "cameraView", <<>>, <<>>, 0, 0, FALSE)
  /\ UNCHANGED <<storage, prompt, negativePrompt, aspectRatio, qualityPreset, promptElValue,
                 disabled, downloadDisabled, outputImage, statusEl, historyHidden,
                 historyGrid, flows, env, nextId, requests, appended>>

-----------------------------------------------------------------------------
(* generate() *)

\* the activation of generate() suspended in generateImage(), at the call of the API
CallFlow(finalPrompt, ar) ==
  [pc |-> "generateImages", finalPrompt |-> finalPrompt, request |-> Request(finalPrompt, ar)]

\* the activation of generate() suspended in openApiKeyDialog(), at openSelectKey()
DialogFlow(pc, f) == [pc |-> pc, finalPrompt |-> f.finalPrompt, request |-> f.request]

NoFlow == [pc |-> "", finalPrompt |-> <<>>, request |-> Request(<<>>, "")]

\* an activation that does not return and is at its call again
RemoveAt_CallsAgain(q, i) == q

RemoveAt(q, i) == SubSeq(q, 1, i - 1) \o SubSeq(q, i + 1, Len(q))

\* a generate() without the finally block
GenerateFinally_Missing == disabled

\* finally { setControlsDisabled(false) }
GenerateFinally == SetControlsDisabled(FALSE)

\* a generate() that disables the controls before it looks for the API key
GenerateNoKey_DisablesControls ==
  /\ env.apiKey = ""
  /\ statusEl' = ShowStatusError(IF env.aistudio THEN MsgNoKey ELSE MsgNoDialog)
  /\ flows' = IF env.aistudio THEN Append(flows, DialogFlow("dialogNoKey", NoFlow))
                               ELSE flows
  /\ ev' = Ev("click", "nokey", <<>>, MsgNoKey, 1, 0, FALSE)
  /\ requests' = requests + 1
  /\ disabled' = SetControlsDisabled(TRUE)
  /\ UNCHANGED <<storage, ui, downloadDisabled, outputImage, historyHidden,
                 historyGrid, env, nextId, edits, appended>>

\* generate() up to its first await: the branch without an API key
GenerateNoKey ==
  /\ env.apiKey = ""
  /\ IF env.aistudio
       THEN /\ statusEl' = ShowStatusError(MsgNoKey)
            /\ flows' = Append(flows, DialogFlow("dialogNoKey", NoFlow))
            /\ ev' = Ev("click", "nokey", <<>>, MsgNoKey, 1, 0, FALSE)
       ELSE /\ statusEl' = ShowStatusError(MsgNoDialog)
            /\ flows' = flows
            /\ ev' = Ev("click", "nokey", <<>>, MsgNoKey, 1, 0, FALSE)
  /\ requests' = requests + 1
  /\ UNCHANGED <<storage, ui, disabled, downloadDisabled, outputImage, historyHidden,
                 historyGrid, env, nextId, edits, appended>>

\* generate() up to its first await: the request is composed and sent
GenerateStart ==
  /\ env.apiKey # ""
  /\ statusEl' = StatusText(MsgGenerating)
  /\ outputImage' = [outputImage EXCEPT !.display = "none"]
  /\ downloadDisabled' = TRUE
  /\ disabled' = SetControlsDisabled(TRUE)
  /\ flows' = Append(flows, CallFlow(ComposePrompt(prompt, cameraView, qualityPreset,
                                                   negativePrompt), aspectRatio))
  /\ requests' = requests + 1
  /\ ev' = Ev("click", "started", <<>>, <<>>, 0, 1, FALSE)
  /\ UNCHANGED <<storage, ui, historyHidden, historyGrid, env, nextId, edits, appended>>

\* the click listener of generateButton; a disabled button dispatches no click
ClickGenerate ==
  /\ requests < MaxRequests
  /\ Len(flows) < MaxFlows
  /\ IF disabled["generateButton"]
       THEN /\ ev' = Ev("click", "disabled", <<>>, <<>>, 0, 0, FALSE)
            /\ UNCHANGED <<storage, ui, disabled, downloadDisabled, outputImage, statusEl,
                           historyHidden, historyGrid, flows, env, nextId, requests,
                           edits, appended>>
     ELSE IF Trim(prompt) = <<>>
       THEN /\ statusEl' = ShowStatusError(MsgEnterPrompt)
            /\ ev' = Ev("click", "blank", <<>>, MsgEnterPrompt, 0, 0, FALSE)
            /\ UNCHANGED <<storage, ui, disabled, downloadDisabled, outputImage,
                           historyHidden, historyGrid, flows, env, nextId, requests,
                           edits, appended>>
     ELSE GenerateNoKey \/ GenerateStart

\* a history entry that takes its prompt from the state variables when the call ends
RecordedPrompt_FromState(f) ==
  ComposePrompt(prompt, cameraView, qualityPreset, negativePrompt)

\* newHistoryItem.prompt: the local finalPrompt of this activation
RecordedPrompt(f) == f.finalPrompt

\* the try block of generate() from the point where the API call has ended
TryBlock(f, outcome, quotaOk) ==
  LET same == [threw |-> TRUE, thrown |-> NoThrow, outputImage |-> outputImage,
               downloadDisabled |-> downloadDisabled, storage |-> storage,
               hidden |-> historyHidden, grid |-> historyGrid, created |-> 0, added |-> 0]
  IN
  IF outcome.kind = "rejected" THEN [same EXCEPT !.thrown = outcome.thrown]
  ELSE IF outcome.kind \in {"undefined", "empty"}
    THEN [same EXCEPT !.thrown = [isError |-> TRUE, message |-> MsgNoImages]]
  ELSE
    LET shown == [src |-> DataUrl(outcome.bytes), display |-> "block"]
        newHistoryItem == [id |-> nextId, prompt |-> RecordedPrompt(f),
                           imageUrl |-> shown.src, timestamp |-> nextId]
        add == AddToHistory(storage, newHistoryItem, quotaOk)
        render == RenderHistory(add.storage, historyHidden, historyGrid)
    IN IF add.threw
         THEN [same EXCEPT !.thrown = [isError |-> TRUE, message |-> add.error],
                           !.outputImage = shown, !.downloadDisabled = FALSE,
                           !.created = 1]
         ELSE [threw |-> render.threw,
               thrown |-> [isError |-> render.threw, message |-> <<>>],
               outputImage |-> shown, downloadDisabled |-> FALSE,
               storage |-> add.storage, hidden |-> render.hidden, grid |-> render.grid,
               created |-> 1, added |-> 1]

\* the continuation of generate() when the call of the API has ended
ApiSettle ==
  \E i \in 1..Len(flows), outcome \in ApiOutcomes, quotaOk \in BOOLEAN :
    /\ flows[i].pc = "generateImages"
    /\ LET f == flows[i]
           t == TryBlock(f, outcome, quotaOk)
           errorMessage == ErrorMessage(t.thrown)
           c == Classify(errorMessage)
       IN
       /\ outputImage' = t.outputImage
       /\ downloadDisabled' = t.downloadDisabled
       /\ storage' = t.storage
       /\ historyHidden' = t.hidden
       /\ historyGrid' = t.grid
       /\ nextId' = nextId + t.created
       /\ appended' = appended + t.added
       /\ IF ~t.threw
            THEN /\ statusEl' = StatusText(MsgSuccess)
                 /\ disabled' = GenerateFinally
                 /\ flows' = RemoveAt(flows, i)
                 /\ ev' = EvSettle(Ev("settle", "success", <<>>, <<>>, 0, 0, FALSE), outcome)
          ELSE IF c.openDialog /\ env.aistudio
            THEN /\ statusEl' = ShowStatusError(c.message)
                 /\ disabled' = disabled
                 /\ flows' = [flows EXCEPT ![i] = DialogFlow("dialogCatch", f)]
                 /\ ev' = EvSettle(Ev("settle", "caught", errorMessage, c.message, 1, 0,
                                      FALSE), outcome)
          ELSE /\ statusEl' = IF c.openDialog THEN ShowStatusError(MsgNoDialog)
                                               ELSE ShowStatusError(c.message)
               /\ disabled' = GenerateFinally
               /\ flows' = RemoveAt(flows, i)
               /\ ev' = EvSettle(Ev("settle", "caught", errorMessage, c.message,
                                    IF c.openDialog THEN 1 ELSE 0, 0, FALSE), outcome)
    /\ UNCHANGED <<ui, env, requests, edits>>

\* the continuation of generate() when the promise of openSelectKey() has settled;
\* a rejection leaves generate() through its finally block, if it is in the try statement
DialogSettle ==
  \E i \in 1..Len(flows), resolved \in BOOLEAN :
    /\ flows[i].pc \in {"dialogNoKey", "dialogCatch"}
    /\ disabled' = IF flows[i].pc = "dialogCatch" THEN GenerateFinally ELSE disabled
    /\ flows' = RemoveAt(flows, i)
    /\ ev' = Ev("dialog", flows[i].pc, <<>>, <<>>, 0, 0, ~resolved)
    /\ UNCHANGED <<storage, ui, downloadDisabled, outputImage, statusEl, historyHidden,
                   historyGrid, env, nextId, requests, edits, appended>>

-----------------------------------------------------------------------------
(* The other listeners.  The click listener of downloadButton builds a link  *)
(* from outputImage.src and promptEl.value and clicks it: it assigns none of *)
(* the state above and has no action here.                                  *)

\* the click listener of clearHistoryButton
ClickClearHistory ==
  \E confirmed \in BOOLEAN :
    /\ IF confirmed
         THEN LET r == RenderHistory(RemoveItem(storage), historyHidden, historyGrid) IN
              /\ storage' = RemoveItem(storage)
              /\ historyHidden' = r.hidden
              /\ historyGrid' = r.grid
              /\ appended' = 0
              /\ ev' = Ev("clear", "confirmed", <<>>, <<>>, 0, 0, r.threw)
         ELSE /\ UNCHANGED <<storage, historyHidden, historyGrid, appended>>
              /\ ev' = Ev("clear", "declined", <<>>, <<>>, 0, 0, FALSE)
    /\ UNCHANGED <<ui, disabled, downloadDisabled, outputImage, statusEl, flows, env,
                   nextId, requests, edits>>

\* item.prompt.split(', photorealistic')[0]
RECURSIVE SplitFirst(_, _)
SplitFirst(s, sep) ==
  IF Len(s) < Len(sep) THEN s
  ELSE IF SubSeq(s, 1, Len(sep)) = sep THEN <<>>
  ELSE <<Head(s)>> \o SplitFirst(Tail(s), sep)

\* the click listener of an item of the history grid
ClickHistoryItem ==
  /\ ~historyHidden
  /\ \E k \in 1..Len(historyGrid) :
       LET item == historyGrid[k]
           mainPrompt == SplitFirst(item.prompt, <<", ", "photorealistic">>)
       IN
       /\ outputImage' = [src |-> item.imageUrl, display |-> "block"]
       /\ downloadDisabled' = FALSE
       /\ promptElValue' = mainPrompt
       /\ prompt' = mainPrompt
       /\ ev' = Ev("restore", "", <<>>, <<>>, 0, 0, FALSE)
  /\ UNCHANGED <<storage, negativePrompt, aspectRatio, qualityPreset, cameraView, disabled,
                 statusEl, historyHidden, historyGrid, flows, env, nextId, requests,
                 edits, appended>>

-----------------------------------------------------------------------------

Next ==
  \/ InputPrompt
  \/ InputNegativePrompt
  \/ ChangeAspectRatio
  \/ ChangeQualityPreset
  \/ ChangeCameraView
  \/ ClickGenerate
  \/ ApiSettle
  \/ DialogSettle
  \/ ClickClearHistory
  \/ ClickHistoryItem

Spec == Init /\ [][Next]_vars

-----------------------------------------------------------------------------
(* The history store alone: addToHistory and removeItem applied to a store  *)
(* that starts empty, for as many appends as it takes to pass the cap.      *)

StoreItem(n) ==
  [id |-> n, prompt |-> ComposePrompt(<<"cat">>, DefaultView, "ultra", <<>>),
   imageUrl |-> DataUrl("AAAA"), timestamp |-> n]

InitStore ==
  /\ storage = Absent
  /\ prompt = <<>>
  /\ negativePrompt = <<>>
  /\ aspectRatio = "16:9"
  /\ qualityPreset = "ultra"
  /\ cameraView = DefaultView
  /\ promptElValue = <<>>
  /\ disabled = SetControlsDisabled(FALSE)
  /\ outputImage = [src |-> <<>>, display |-> "none"]
  /\ statusEl = StatusText(<<>>)
  /\ historyHidden = RenderHistory(storage, TRUE, <<>>).hidden
  /\ historyGrid = RenderHistory(storage, TRUE, <<>>).grid
  /\ downloadDisabled = TRUE
  /\ flows = <<>>
  /\ env = [apiKey |-> "KEY", aistudio |-> TRUE]
  /\ nextId = 1
  /\ requests = 0
  /\ edits = 0
  /\ appended = 0
  /\ ev = Ev("load", "", <<>>, <<>>, 0, 0, FALSE)

\* addToHistory(item); renderHistory(), as generate() calls them
StoreAppend ==
  /\ nextId <= MaxAppends
  /\ \E quotaOk \in BOOLEAN :
       LET add == AddToHistory(storage, StoreItem(nextId), quotaOk)
           render == RenderHistory(add.storage, historyHidden, historyGrid)
       IN
       /\ storage' = add.storage
       /\ historyHidden' = render.hidden
       /\ historyGrid' = render.grid
       /\ nextId' = IF add.threw THEN nextId ELSE nextId + 1
       /\ appended' = IF add.threw THEN appended ELSE appended + 1
       /\ ev' = Ev("append", IF add.threw THEN "threw" ELSE "added", add.error, <<>>,
                   0, 0, FALSE)
  /\ UNCHANGED <<ui, disabled, downloadDisabled, outputImage, statusEl, flows, env,
                 requests, edits>>

NextStore ==
  \/ StoreAppend
  \/ ClickClearHistory

SpecStore == InitStore /\ [][NextStore]_vars

\* The listeners and continuations a generation flow consists of or can interleave
\* with.  The four listeners left out (negative prompt, aspect ratio, quality preset,
\* camera view) assign variables that only the composed request reads, and they
\* cannot run while a flow has the controls disabled.
NextFlow ==
  \/ InputPrompt
  \/ ClickGenerate
  \/ ApiSettle
  \/ DialogSettle
  \/ ClickClearHistory
  \/ ClickHistoryItem

\* The event loop runs the continuation of generate() once the promise it awaits has
\* settled; the promises of the API call and of the key dialog are taken to settle.
FairSpec == Init /\ [][NextFlow]_vars /\ WF_vars(ApiSettle) /\ WF_vars(DialogSettle)


-----------------------------------------------------------------------------
(* The page with a prompt typed and a history that earlier visits have       *)
(* filled to one item below the cap, or not at all: two more requests pass   *)
(* the cap, with clears and restores in between.                             *)

\* the stored history after n appends to an empty store, n at most the cap
HistoryOf(n) == [k \in 1..n |-> StoreItem(n + 1 - k)]

InitHistory ==
  /\ \E n \in {0, MAX_HISTORY_ITEMS - 1} :
       /\ storage = IF n = 0 THEN Absent ELSE JsonStringify(HistoryOf(n))
       /\ nextId = n + 1
  /\ prompt = <<"cat">>
  /\ negativePrompt = <<>>
  /\ aspectRatio = "16:9"
  /\ qualityPreset = "ultra"
  /\ cameraView = DefaultView
  /\ promptElValue = prompt
  /\ disabled = SetControlsDisabled(FALSE)
  /\ outputImage = [src |-> <<>>, display |-> "none"]
  /\ statusEl = StatusText(<<>>)
  /\ historyHidden = RenderHistory(storage, TRUE, <<>>).hidden
  /\ historyGrid = RenderHistory(storage, TRUE, <<>>).grid
  /\ downloadDisabled = TRUE
  /\ flows = <<>>
  /\ env = [apiKey |-> "KEY", aistudio |-> TRUE]
  /\ requests = 0
  /\ edits = 0
  /\ appended = 0
  /\ ev = Ev("load", "", <<>>, <<>>, 0, 0, FALSE)

\* the steps that read or write the store or run between those that do, the prompt
\* having been typed
NextHistory ==
  \/ ClickGenerate
  \/ ApiSettle
  \/ DialogSettle
  \/ ClickClearHistory
  \/ ClickHistoryItem

SpecHistory == InitHistory /\ [][NextHistory]_vars

-----------------------------------------------------------------------------
(* The composition of the prompt alone: generate() applied to configurations *)
(* drawn from wider sets than the listeners of the page model enter.         *)

ComposePrompts ==
  {<<>>, <<" ">>, <<"a cat">>, <<" ", "cat", " ">>, <<"cat", ", ", "photorealistic">>}
ComposeNegatives ==
  {<<>>, <<" ">>, <<"blurry">>, <<" ", "blurry", "\n">>, <<"\n", "no", " ", "text">>}
ComposePresets == {"sd", "hd", "ultra", "draft", ""}
ComposeViews ==
  {DefaultView, <<"low", "-", "angle">>, <<"birds", "-", "eye", "-", "view">>, <<"aerial">>}

InitCompose ==
  /\ storage = Absent
  /\ prompt \in ComposePrompts
  /\ negativePrompt \in ComposeNegatives
  /\ aspectRatio \in AspectRatios
  /\ qualityPreset \in ComposePresets
  /\ cameraView \in ComposeViews
  /\ promptElValue = prompt
  /\ disabled = SetControlsDisabled(FALSE)
  /\ outputImage = [src |-> <<>>, display |-> "none"]
  /\ statusEl = StatusText(<<>>)
  /\ historyHidden = RenderHistory(storage, TRUE, <<>>).hidden
  /\ historyGrid = RenderHistory(storage, TRUE, <<>>).grid
  /\ downloadDisabled = TRUE
  /\ flows = <<>>
  /\ env = [apiKey |-> "KEY", aistudio |-> TRUE]
  /\ nextId = 1
  /\ requests = 0
  /\ edits = 0
  /\ appended = 0
  /\ ev = Ev("load", "", <<>>, <<>>, 0, 0, FALSE)

NextCompose == ClickGenerate

SpecCompose == InitCompose /\ [][NextCompose]_vars

-----------------------------------------------------------------------------
(* Claims *)

StoredItems == GetHistory(storage).items

Min(a, b) == IF a < b THEN a ELSE b

\* C1: from an empty store, after N appends with no clear in between, the stored
\* history holds exactly min(N, 30) items, and the i-th most recent append is at
\* position i (the ids are handed out in the order of the appends).
C1_BoundedNewestFirst ==
  /\ GetHistory(storage).type = "array"
  /\ Len(StoredItems) = Min(appended, MAX_HISTORY_ITEMS)
  /\ \A i \in 1..Len(StoredItems) : StoredItems[i] = StoreItem(nextId - i)

\* C1 witness: more appends than the cap have been made since the store was empty
C1_Witness ==
  /\ appended > MAX_HISTORY_ITEMS
  /\ Len(StoredItems) = MAX_HISTORY_ITEMS
  /\ ev.op = "append" /\ ev.path = "added"

\* C6: an append to a history of exactly 30 items leaves 30 items: the new item,
\* then the first 29 of the previous items in their order; the previous last is gone.
C6_TruncationDropsOldest ==
  [][(ev'.op = "append" /\ ev'.path = "added" /\ Len(StoredItems) = MAX_HISTORY_ITEMS)
       => /\ Len(GetHistory(storage').items) = MAX_HISTORY_ITEMS
          /\ GetHistory(storage').items
               = <<StoreItem(nextId)>> \o SubSeq(StoredItems, 1, MAX_HISTORY_ITEMS - 1)
          /\ \A i \in 1..MAX_HISTORY_ITEMS :
               GetHistory(storage').items[i] # StoredItems[MAX_HISTORY_ITEMS]]_vars

\* C6 witness: an append has just been made to a store that was full
C6_Witness ==
  /\ ev.op = "append" /\ ev.path = "added"
  /\ appended = MAX_HISTORY_ITEMS + 1
  /\ StoredItems[1] = StoreItem(nextId - 1)
  /\ StoredItems[MAX_HISTORY_ITEMS] = StoreItem(nextId - MAX_HISTORY_ITEMS)

-----------------------------------------------------------------------------

\* the activations of generate() between setControlsDisabled(true) and the finally block
Busy == {i \in 1..Len(flows) : flows[i].pc \in {"generateImages", "dialogCatch"}}

\* the calls of the API that have not ended
Outstanding == {i \in 1..Len(flows) : flows[i].pc = "generateImages"}

AllEnabled == \A c \in Controls : ~disabled[c]

\* C2: while a request is in flight a submit attempt issues no call of the API and
\* adds no history entry, and at most one call of the API is outstanding at any time.
C2_SingleFlight ==
  /\ [](Cardinality(Outstanding) <= 1)
  /\ [][(ev'.op = "click" /\ Busy # {})
          => /\ ev'.calls = 0
             /\ flows' = flows
             /\ storage' = storage
             /\ nextId' = nextId]_vars

\* C2 witness: the generate button was clicked while a call was outstanding
C2_Witness ==
  /\ ev.op = "click" /\ ev.path = "disabled"
  /\ Cardinality(Outstanding) = 1
  /\ requests = 1

\* C3: controls are disabled only while a generation flow is in flight; the step
\* by which a flow leaves generate() (success, empty result, classified failure
\* with or without the key dialog, unclassified failure) leaves all six controls
\* enabled; and disabled controls are eventually enabled again.
C3_GuaranteedReenable ==
  /\ [](Busy = {} => AllEnabled)
  /\ [][(Busy # {} /\ Len(flows') < Len(flows)) => AllEnabled']_vars
  /\ (~AllEnabled ~> AllEnabled)

\* C3 witness: a flow that waited for the key dialog has ended, and the controls are on
C3_Witness ==
  /\ ev.op = "dialog" /\ ev.path = "dialogCatch"
  /\ AllEnabled
  /\ flows = <<>>

\* a message none of the signatures of the catch block occurs in
Unmatched(m) ==
  /\ ~Includes(m, SigNotFound)
  /\ ~Includes(m, SigKeyInvalid)
  /\ ~Includes(m, SigKeyNotValid)
  /\ ~Includes(ToLowerCase(m), SigPermission)

Failed == ev.op = "settle" /\ ev.path = "caught"

\* the key dialog has been asked for once: one activation waits for it, or, where
\* window.aistudio is missing, the status says that key selection is not available
DialogOpenedOnce ==
  /\ ev.dialogs = 1
  /\ IF env.aistudio
       THEN Cardinality({i \in 1..Len(flows) : flows[i].pc = "dialogCatch"}) = 1
       ELSE statusEl = ShowStatusError(MsgNoDialog)

\* C4 as stated: every failed call whose message contains "API_KEY_INVALID" reports
\* the invalid-key message and opens the key dialog once; every failed call whose
\* message matches no signature reports "Error: <message>" and opens no dialog.
C4_AsStated ==
  Failed =>
    /\ Includes(ev.error, SigKeyInvalid)
         => (ev.reported = MsgInvalidKey /\ ev.dialogs = 1)
    /\ Unmatched(ev.error)
         => (ev.reported = <<"Error: ">> \o ev.error /\ ev.dialogs = 0)

\* C4: a failed call whose message contains "API_KEY_INVALID" and not "Requested
\* entity was not found." reports the invalid-key message; one that contains both
\* reports the model-not-found message; either opens the key dialog exactly once.
\* A failed call whose message matches no signature reports "Error: <message>",
\* which is then the status, and opens no dialog.
C4_ClassificationMapping ==
  Failed =>
    /\ (Includes(ev.error, SigKeyInvalid) /\ ~Includes(ev.error, SigNotFound))
         => (ev.reported = MsgInvalidKey /\ DialogOpenedOnce)
    /\ (Includes(ev.error, SigKeyInvalid) /\ Includes(ev.error, SigNotFound))
         => (ev.reported = MsgModelNotFound /\ DialogOpenedOnce)
    /\ Unmatched(ev.error)
         => /\ ev.reported = <<"Error: ">> \o ev.error
            /\ statusEl = ShowStatusError(ev.reported)
            /\ ev.dialogs = 0
            /\ \A i \in 1..Len(flows) : flows[i].pc # "dialogCatch"

\* C4 witness: a call failed with a message that holds both signatures
C4_Witness ==
  /\ Failed
  /\ Includes(ev.error, SigKeyInvalid) /\ Includes(ev.error, SigNotFound)
  /\ ev.reported = MsgModelNotFound

\* C5: no exception leaves generate(), and after every failure no flow is left in
\* flight, the controls are enabled and the status shows the error.
C5_AllFailuresCaught ==
  /\ ~ev.escaped
  /\ (Failed /\ Busy = {}) => (AllEnabled /\ statusEl.red)
  /\ (ev.op = "dialog" /\ Busy = {}) => (AllEnabled /\ statusEl.red)

\* the items of a stored array, none for anything else
ItemsOf(st) == IF GetHistory(st).type = "array" THEN GetHistory(st).items ELSE <<>>

\* C7: the step that ends a call of the API which returned an image puts exactly one
\* item at the head of the stored history, holding the prompt that was sent and the
\* image that was returned; a failed call and a click of the generate button add none.
C7_OneItemPerSuccess ==
  [][/\ (ev'.op = "settle" /\ ev'.api = "images")
          => /\ GetHistory(storage').type = "array"
             /\ ItemsOf(storage') # <<>>
             /\ Tail(ItemsOf(storage'))
                  = Slice(ItemsOf(storage), MAX_HISTORY_ITEMS - 1)
             /\ Head(ItemsOf(storage')).imageUrl = ev'.image
             /\ \E i \in Outstanding :
                  /\ flows' = RemoveAt(flows, i)
                  /\ Head(ItemsOf(storage')).prompt = flows[i].request.prompt
     /\ ((ev'.op = "settle" /\ ev'.api # "images") \/ ev'.op = "click")
          => storage' = storage]_vars

\* an entry under the history key that is not the JSON of an array
Malformed(st) == st.tag = "raw" \/ (st.tag = "json" /\ st.value.type # "array")

\* C9: with a malformed entry under the history key, getHistory() gives the empty
\* array, and a generation whose call returns an image (the write not failing on the
\* quota) ends with the success status and a stored history of just the new item.
C9_CorruptResilience ==
  [][(Malformed(storage) /\ ev'.op = "settle" /\ ev'.api = "images"
        /\ ev'.error # <<"Quota exceeded">>)
       => /\ GetHistory(storage) = JsArray(<<>>)
          /\ statusEl' = StatusText(MsgSuccess)
          /\ GetHistory(storage').type = "array"
          /\ Len(ItemsOf(storage')) = 1
          /\ ItemsOf(storage')[1].imageUrl = ev'.image]_vars

\* a text trim() leaves nothing of
Blank(s) == \A i \in 1..Len(s) : s[i] \in Whitespace

\* C8: a click of the enabled generate button with a blank prompt shows the validation
\* error and nothing else: no call, no flow, controls, image, download button and
\* stored history as they were.
C8_BlankPromptRejected ==
  [][(ev'.op = "click" /\ ~disabled["generateButton"] /\ Blank(prompt))
       => /\ statusEl' = ShowStatusError(MsgEnterPrompt)
          /\ ev'.calls = 0 /\ ev'.dialogs = 0
          /\ flows' = flows
          /\ disabled' = disabled
          /\ outputImage' = outputImage
          /\ downloadDisabled' = downloadDisabled
          /\ storage' = storage]_vars

\* C8 witness: a prompt of whitespace only has been submitted and refused
C8_Witness ==
  /\ ev.op = "click" /\ ev.path = "blank"
  /\ prompt # <<>> /\ Blank(prompt)
  /\ statusEl = ShowStatusError(MsgEnterPrompt)
  /\ flows = <<>>

\* C10: a confirmed clear leaves a store whose load is the empty array, whatever it
\* held; a second confirmed clear right after it changes nothing; a declined clear
\* leaves the entry as it was.
C10_Clear ==
  [][/\ (ev'.op = "clear" /\ ev'.path = "confirmed")
          => /\ GetHistory(storage') = JsArray(<<>>)
             /\ historyHidden'
             /\ (ev.op = "clear" /\ ev.path = "confirmed")
                  => (storage' = storage /\ historyHidden' = historyHidden
                      /\ historyGrid' = historyGrid)
     /\ (ev'.op = "clear" /\ ev'.path = "declined")
          => (storage' = storage /\ historyHidden' = historyHidden)]_vars

\* C10 witness: a history that held an item has been cleared
C10_Witness ==
  /\ ev.op = "clear" /\ ev.path = "confirmed"
  /\ historyGrid # <<>>
  /\ historyHidden
  /\ GetHistory(storage) = JsArray(<<>>)

\* a text without the white space around it, found by position
Core(s) ==
  IF Blank(s) THEN <<>>
  ELSE LET first == CHOOSE i \in 1..Len(s) :
                      s[i] \notin Whitespace /\ \A j \in 1..(i - 1) : s[j] \in Whitespace
           last == CHOOSE i \in 1..Len(s) :
                     s[i] \notin Whitespace /\ \A j \in (i + 1)..Len(s) : s[j] \in Whitespace
       IN SubSeq(s, first, last)

\* the keywords of the three presets, none for any other
PresetTable(q) ==
  CASE q = "sd" -> <<"720p resolution", ", ", "standard quality", ", ", "sharp focus",
                     ", ", "basic detail">>
    [] q = "hd" -> <<"1080p", ", ", "Full HD resolution", ", ", "high quality", ", ",
                     "high detail", ", ", "realistic look">>
    [] q = "ultra" -> <<"4K+", ", ", "ultra realistic", ", ", "shot on ARRI ALEXA LF", ", ",
                        "Anamorphic Lenses", ", ", "High Contrast", ", ",
                        "Gritty Film Grain", ", ", "Shallow Depth of Field", ", ",
                        "extreme atmospheric realism", ", ", "deep blacks (Chiaroscuro)">>
    [] OTHER -> <<>>

StyleList ==
  <<"photorealistic", ", ", "film still", ", ", "movie scene", ", ", "fit prompt", ", ",
    "no distortion", ", ", "no deformations", ", ", "no text overlays">>

\* the composed prompt as the claim lays it out, part after part
Layout(p, cv, q, neg) ==
  p
  \o (IF cv = <<"default">> THEN <<>>
      ELSE <<", ", "Shot from a ">>
             \o [i \in 1..Len(cv) |-> IF cv[i] = "-" THEN " " ELSE cv[i]]
             \o <<" perspective">>)
  \o <<", ">> \o PresetTable(q) \o <<", ">> \o StyleList
  \o (IF Blank(neg) THEN <<>> ELSE <<". Negative prompt: ">> \o Core(neg))

\* C11: the prompt of every request sent is the base prompt verbatim, then the camera
\* clause unless the view is "default", then ", <quality keywords>, <style keywords>"
\* (no quality keywords for an unrecognised preset), then ". Negative prompt: <trimmed
\* negative prompt>" if that is not blank.
C11_PromptComposition ==
  \A i \in Outstanding :
    /\ flows[i].request.prompt = Layout(prompt, cameraView, qualityPreset, negativePrompt)
    /\ (prompt = <<"a cat">> /\ cameraView = DefaultView /\ qualityPreset = "sd"
          /\ negativePrompt = <<>>)
         => flows[i].request.prompt
              = <<"a cat", ", ", "720p resolution", ", ", "standard quality", ", ",
                  "sharp focus", ", ", "basic detail", ", ", "photorealistic", ", ",
                  "film still", ", ", "movie scene", ", ", "fit prompt", ", ",
                  "no distortion", ", ", "no deformations", ", ", "no text overlays">>

\* C11 witness: a request was sent with a camera view, an unrecognised preset and a
\* negative prompt that has white space around it
C11_Witness ==
  /\ Outstanding # {}
  /\ cameraView = <<"low", "-", "angle">>
  /\ qualityPreset = "draft"
  /\ negativePrompt = <<" ", "blurry", "\n">>
  /\ prompt = <<" ", "cat", " ">>
  /\ flows[1].request.prompt
       = <<" ", "cat", " ", ", ", "Shot from a ", "low", " ", "angle", " perspective", ", ",
           ", ">> \o StyleList \o <<". Negative prompt: ", "blurry">>

\* the categories of a failure, as the catch block tells them apart
IsNotFound(m) == Includes(m, SigNotFound)
IsAuthentication(m) ==
  /\ ~IsNotFound(m)
  /\ \/ Includes(m, SigKeyInvalid)
     \/ Includes(m, SigKeyNotValid)
     \/ Includes(ToLowerCase(m), SigPermission)
IsEmptyResult(m) == m = MsgNoImages
Categories(m) ==
  {c \in {"NotFound", "Authentication", "EmptyResult", "Unclassified"} :
     \/ c = "NotFound" /\ ev.reported = MsgModelNotFound
     \/ c = "Authentication" /\ ev.reported = MsgInvalidKey
     \/ c = "EmptyResult" /\ ev.reported = <<"Error: ">> \o m /\ IsEmptyResult(m)
     \/ c = "Unclassified" /\ ev.reported = <<"Error: ">> \o m /\ ~IsEmptyResult(m)}

DialogsWaiting == {i \in 1..Len(flows) : flows[i].pc = "dialogCatch"}

\* C12: after every failed request the key dialog has been asked for at most once, and
\* once exactly when the failure is an authentication or a not-found failure; an empty
\* result and an unclassified failure are reported as "Error: <message>" and ask for no
\* dialog; every failure is in exactly one category.
C12_DialogIffKeyFailure ==
  Failed =>
    /\ ev.dialogs <= 1 /\ Cardinality(DialogsWaiting) <= 1
    /\ Cardinality(Categories(ev.error)) = 1
    /\ (IsNotFound(ev.error) \/ IsAuthentication(ev.error))
         <=> (Categories(ev.error) \subseteq {"NotFound", "Authentication"})
    /\ IsNotFound(ev.error) <=> Categories(ev.error) = {"NotFound"}
    /\ (Categories(ev.error) \subseteq {"NotFound", "Authentication"}) <=> DialogOpenedOnce
    /\ (Categories(ev.error) \subseteq {"EmptyResult", "Unclassified"})
         => /\ ev.dialogs = 0 /\ DialogsWaiting = {}
            /\ statusEl = ShowStatusError(<<"Error: ">> \o ev.error)
    /\ ev.api \in {"undefined", "empty"} => Categories(ev.error) = {"EmptyResult"}

\* C12 witness: the API answered without an image, which was reported as an error
\* with no key dialog
C12_Witness ==
  /\ Failed
  /\ ev.api = "empty"
  /\ ev.reported = <<"Error: ">> \o MsgNoImages
  /\ ev.dialogs = 0
  /\ flows = <<>>

\* C13: the request that is sent holds the prompt composed from the state variables and
\* the aspect ratio as they are at the click; no later step before the call ends (a
\* restore, a clear) changes the activation's request; and the history entry of a
\* successful call holds that request's prompt and the image the call returned.
C13_CapturedByValue ==
  [][/\ (ev'.op = "click" /\ ev'.path = "started")
          => LET f == flows'[Len(flows')]
             IN /\ f.pc = "generateImages"
                /\ f.request.prompt
                     = ComposePrompt(prompt, cameraView, qualityPreset, negativePrompt)
                /\ f.request.hasAspectRatio = (aspectRatio # "")
                /\ f.request.hasAspectRatio => f.request.aspectRatio = aspectRatio
                /\ f.finalPrompt = f.request.prompt
     /\ ev'.op # "settle"
          => \A i \in Outstanding : \E j \in 1..Len(flows') : flows'[j] = flows[i]
     /\ (ev'.op = "settle" /\ ev'.path = "success")
          => \E i \in Outstanding :
               /\ Len(ItemsOf(storage')) >= 1
               /\ ItemsOf(storage')[1].prompt = flows[i].request.prompt
               /\ ItemsOf(storage')[1].imageUrl = ev'.image
               /\ outputImage'.src = ev'.image
    ]_vars

\* C13 witness: a call has succeeded after a restore replaced the current prompt while
\* the call was outstanding; the new entry has the prompt that was submitted
C13_Witness ==
  /\ ev.op = "settle" /\ ev.path = "success"
  /\ Len(ItemsOf(storage)) = 2
  /\ ItemsOf(storage)[1].prompt = ItemsOf(storage)[2].prompt
  /\ ItemsOf(storage)[1].prompt
       # ComposePrompt(prompt, cameraView, qualityPreset, negativePrompt)
  /\ prompt = SplitFirst(ItemsOf(storage)[2].prompt, <<", ", "photorealistic">>)
  /\ ItemsOf(storage)[1].imageUrl # ItemsOf(storage)[2].imageUrl
  /\ outputImage.src = ItemsOf(storage)[1].imageUrl

\* C14: in every state, whatever the order of submits, ends of calls, clears and
\* restores, the stored history has at most 30 items, every item is newer than the
\* items after it (ids and timestamps are handed out in the order of creation), and
\* so no two items have the same id.
C14_HistoryInvariant ==
  /\ GetHistory(storage).type = "array"
  /\ Len(ItemsOf(storage)) <= 30
  /\ \A i, j \in 1..Len(ItemsOf(storage)) :
       i < j => /\ ItemsOf(storage)[i].id > ItemsOf(storage)[j].id
                /\ ItemsOf(storage)[i].timestamp >= ItemsOf(storage)[j].timestamp
  /\ (ev.op = "clear" /\ ev.path = "confirmed") => ItemsOf(storage) = <<>>
  /\ (ev.op = "settle" /\ ev.path = "success")
       => (ItemsOf(storage) # <<>> /\ ItemsOf(storage)[1].id = nextId - 1)

\* C14 witness: a call succeeded on a full history, whose oldest item was dropped
C14_Witness ==
  /\ ev.op = "settle" /\ ev.path = "success"
  /\ Len(ItemsOf(storage)) = 30
  /\ ItemsOf(storage)[1].id = 31
  /\ ItemsOf(storage)[30].id = 2

\* C15: a step starts an external call only if it is a click on the enabled button with
\* no activation busy, and that step starts exactly one; the step in which a call ends,
\* failed or not, leaves one call less outstanding and starts none; no other step
\* starts a call.
C15_OneCallPerSubmit ==
  [][/\ (ev'.op = "click" /\ ev'.path = "started")
          => /\ ev'.calls = 1
             /\ Cardinality(Outstanding') = Cardinality(Outstanding) + 1
     /\ Cardinality(Outstanding') > Cardinality(Outstanding)
          => /\ ev'.op = "click" /\ ev'.path = "started"
             /\ Busy = {} /\ AllEnabled
             /\ Cardinality(Outstanding') = 1
     /\ ev'.op = "settle"
          => /\ ev'.calls = 0
             /\ Cardinality(Outstanding') = Cardinality(Outstanding) - 1
     /\ ev'.op \notin {"click", "settle"}
          => /\ ev'.calls = 0
             /\ Outstanding' = Outstanding
    ]_vars

\* C15 witness: a call has failed and the page is idle again, with no call outstanding
C15_Witness ==
  /\ Failed
  /\ ev.api = "rejected"
  /\ ev.calls = 0
  /\ Outstanding = {} /\ Busy = {}
  /\ AllEnabled

KeyDialogsWaiting == {i \in 1..Len(flows) : flows[i].pc = "dialogNoKey"}

\* C16: with no API key, a click on the generate button with a prompt that is not blank
\* shows an error and asks for the key dialog once; it starts no external call, leaves
\* every control enabled and leaves the image, the download button and the stored
\* history as they were; the end of the key dialog changes none of these either.
C16_NoKeySubmit ==
  [][/\ (env.apiKey = "" /\ ev'.op = "click" /\ ~Blank(prompt))
          => /\ ev'.path = "nokey"
             /\ statusEl'.red
             /\ statusEl'.text = (IF env.aistudio THEN MsgNoKey ELSE MsgNoDialog)
             /\ ev'.reported = MsgNoKey
             /\ ev'.dialogs = 1
             /\ env.aistudio
                  => Cardinality(KeyDialogsWaiting') = Cardinality(KeyDialogsWaiting) + 1
             /\ ev'.calls = 0 /\ Outstanding' = {} /\ Busy' = {}
             /\ AllEnabled /\ AllEnabled'
             /\ outputImage' = outputImage
             /\ downloadDisabled' = downloadDisabled
             /\ storage' = storage /\ historyGrid' = historyGrid
     /\ (env.apiKey = "" /\ ev'.op = "dialog")
          => /\ AllEnabled'
             /\ Outstanding' = {}
             /\ outputImage' = outputImage
             /\ downloadDisabled' = downloadDisabled
             /\ storage' = storage
    ]_vars

\* C16 witness: without a key the button was clicked with a prompt; the error is shown
\* and the key dialog is open
C16_Witness ==
  /\ env.apiKey = ""
  /\ ev.op = "click" /\ ev.path = "nokey"
  /\ ~Blank(prompt)
  /\ statusEl = ShowStatusError(MsgNoKey)
  /\ KeyDialogsWaiting # {}
  /\ AllEnabled
  /\ Outstanding = {}

\* C17: a restore of a history item shows the item's image, enables the download
\* button and sets the current prompt (and the prompt field) to the prompt p the user
\* had submitted for that item, that is, to the p from which, with some camera view,
\* preset and negative prompt, the item's prompt was composed.
C17_RestoreRoundTrip ==
  [][ev'.op = "restore"
       => \E k \in 1..Len(historyGrid) :
            /\ outputImage' = [src |-> historyGrid[k].imageUrl, display |-> "block"]
            /\ ~downloadDisabled'
            /\ promptElValue' = prompt'
            /\ \E cv \in CameraViews, q \in QualityPresets,
                  neg \in NegativeInputs \cup {negativePrompt} :
                 historyGrid[k].prompt = ComposePrompt(prompt', cv, q, neg)
    ]_vars

ImageDisplayed == outputImage.display = "block" /\ outputImage.src # <<>>

DownloadOnlyOfImage == ~downloadDisabled => ImageDisplayed

\* C18: no step leads from a state where the download button is enabled only if an
\* image is displayed to a state where it is enabled with no image displayed; and when
\* a call ends in failure with no restore since the click (the image still hidden, the
\* button still disabled), no image is displayed and the button is disabled afterwards.
C18_DownloadOnlyOfImage ==
  [][/\ DownloadOnlyOfImage => DownloadOnlyOfImage'
     /\ (ev'.op = "settle" /\ ev'.path = "caught"
           /\ outputImage.display = "none" /\ downloadDisabled)
          => (~ImageDisplayed' /\ downloadDisabled')
    ]_vars

====
